---- MODULE Spec2Model ----
(***************************************************************************)
(* A model of ffprobe3/ffprobe.py: the constructor of FFProbe (the block   *)
(* parser over the two channels of the stream dump, the classification of  *)
(* the records, the scan of the second invocation's diagnostic channel for *)
(* the container bit rate), the constructors of FFStream and FFContainer   *)
(* and the accessors frames() and container_bitrate().                     *)
(*                                                                         *)
(* Text is modelled character by character: a Python str is a sequence of  *)
(* one-character strings, so that split, strip, int, `in` and the regular  *)
(* expressions are computed as the code computes them.  A Python value is  *)
(* a tagged record (StrVal, IntVal, NoneVal); a __dict__ is a function     *)
(* from keys (texts) to values.  An FFStream in several lists is one       *)
(* object:                                                                 *)
(* the partition lists hold references, modelled as indices into streams.  *)
(*                                                                         *)
(* The lines of a channel are drawn one at a time, as the loop reaches     *)
(* them; stdout, stderr and mkverr hold the lines iterated so far.  blocks *)
(* is a history variable: the data_lines argument of every FFStream call.  *)
(* An exception that leaves the constructor ends the analysis: pc becomes  *)
(* "error" and err names the exception.                                    *)
(*                                                                         *)
(* Four specifications share Init and the actions and differ in the lines  *)
(* they draw: SpecParser (markers and body lines in any order, on both     *)
(* channels), SpecClassify (blocks of codec_type lines on both channels),  *)
(* SpecStream (one block of field lines, then frames()) and SpecContainer  *)
(* (the diagnostic lines of the second invocation).                        *)
(***************************************************************************)
EXTENDS Integers, Sequences, FiniteSets

VARIABLES pc, err, stdout, stderr, mkverr, stream, data_lines, blocks,
          streams, video, audio, subtitle, attachment, container, ret

vars == <<pc, err, stdout, stderr, mkverr, stream, data_lines, blocks,
          streams, video, audio, subtitle, attachment, container, ret>>

(***************************************************************************)
(* Bounds of the model: the number of lines drawn per channel.             *)
(***************************************************************************)
MaxStdout == 4
MaxStderr == 1
MaxMkverr == 3
MaxBody == 3
MaxDump == 6
MaxDumpErr == 3
MaxFields == 1

(***************************************************************************)
(* Python values and text.                                                 *)
(***************************************************************************)
StrVal(s) == [t |-> "str", s |-> s]
IntVal(n) == [t |-> "int", i |-> n]
NoneVal == [t |-> "None"]

Whitespace == {" ", "\t"}
Digits == {"0", "1", "2", "3", "4", "5", "6", "7", "8", "9"}
Lower == {"a", "b", "c", "d", "e", "f", "g", "h", "i", "j", "k", "l", "m",
          "n", "o", "p", "q", "r", "s", "t", "u", "v", "w", "x", "y", "z"}

\* sub in s
Contains(sub, s) ==
    \E i \in 1..(Len(s) - Len(sub) + 1) : SubSeq(s, i, i + Len(sub) - 1) = sub

RECURSIVE LStrip(_)
LStrip(s) == IF s # <<>> /\ Head(s) \in Whitespace THEN LStrip(Tail(s)) ELSE s

RECURSIVE RStrip(_)
RStrip(s) ==
    IF s # <<>> /\ s[Len(s)] \in Whitespace
    THEN RStrip(SubSeq(s, 1, Len(s) - 1))
    ELSE s

\* s.strip()
Strip(s) == RStrip(LStrip(s))

\* s.split(c): every occurrence of the separator cuts
RECURSIVE Split(_, _)
Split(s, c) ==
    IF \A i \in 1..Len(s) : s[i] # c
    THEN <<s>>
    ELSE LET p == CHOOSE i \in 1..Len(s) :
                      s[i] = c /\ \A j \in 1..(i - 1) : s[j] # c
         IN  <<SubSeq(s, 1, p - 1)>> \o Split(SubSeq(s, p + 1, Len(s)), c)

DigitVal(c) ==
    CASE c = "0" -> 0 [] c = "1" -> 1 [] c = "2" -> 2 [] c = "3" -> 3
      [] c = "4" -> 4 [] c = "5" -> 5 [] c = "6" -> 6 [] c = "7" -> 7
      [] c = "8" -> 8 [] c = "9" -> 9

RECURSIVE DigitsVal(_, _)
DigitsVal(s, acc) ==
    IF s = <<>> THEN acc
    ELSE IF Head(s) = "_" THEN DigitsVal(Tail(s), acc)
    ELSE DigitsVal(Tail(s), 10 * acc + DigitVal(Head(s)))

\* int(s) of a str: surrounding whitespace, an optional sign, digits with
\* single underscores between them; anything else raises ValueError.
PyInt(s) ==
    LET t == Strip(s)
        signed == t # <<>> /\ t[1] \in {"+", "-"}
        body == IF signed THEN Tail(t) ELSE t
        ok == /\ body # <<>>
              /\ \A i \in 1..Len(body) :
                    \/ body[i] \in Digits
                    \/ /\ body[i] = "_"
                       /\ 1 < i /\ i < Len(body)
                       /\ body[i - 1] \in Digits
                       /\ body[i + 1] \in Digits
        mag == IF ok THEN DigitsVal(body, 0) ELSE 0
    IN  [ok |-> ok, v |-> IF signed /\ t[1] = "-" THEN 0 - mag ELSE mag]

(***************************************************************************)
(* __dict__                                                                *)
(***************************************************************************)
EmptyDict == [k \in {} |-> NoneVal]
DictSet(d, k, v) == [x \in (DOMAIN d) \cup {k} |-> IF x = k THEN v ELSE d[x]]
\* d.get(k, default)
Get(d, k, default) == IF k \in DOMAIN d THEN d[k] ELSE default

k_avg_frame_rate == <<"a","v","g","_","f","r","a","m","e","_","r","a","t","e">>
k_framerate == <<"f","r","a","m","e","r","a","t","e">>
k_codec_type == <<"c","o","d","e","c","_","t","y","p","e">>
k_nb_frames == <<"n","b","_","f","r","a","m","e","s">>
k_container_bitrate == <<"c","o","n","t","a","i","n","e","r","_","b","i","t","r","a","t","e">>
k_is_audio == <<"i","s","_","a","u","d","i","o">>
k_is_video == <<"i","s","_","v","i","d","e","o">>
k_is_subtitle == <<"i","s","_","s","u","b","t","i","t","l","e">>
k_is_attachment == <<"i","s","_","a","t","t","a","c","h","m","e","n","t">>
k_frames == <<"f","r","a","m","e","s">>

(***************************************************************************)
(* FFStream.__init__                                                       *)
(***************************************************************************)
\* round(x) of the quotient num/den, den # 0: to the nearest integer, a tie
\* to the even one.
Round(num, den) ==
    LET n == IF den < 0 THEN 0 - num ELSE num
        m == IF den < 0 THEN 0 - den ELSE den
        q == n \div m
        r == n % m
    IN  IF 2 * r < m THEN q
        ELSE IF 2 * r > m THEN q + 1
        ELSE IF q % 2 = 0 THEN q ELSE q + 1

\* functools.reduce(operator.truediv, map(int, parts)): the quotient is kept
\* exactly, as num/den (the float quotient of the code rounds to the same
\* integer for the magnitudes drawn here); a part that is no integer text
\* raises ValueError, a zero divisor raises ZeroDivisionError.
RECURSIVE ReduceTruediv(_, _, _)
ReduceTruediv(parts, num, den) ==
    IF parts = <<>> THEN [raised |-> "", num |-> num, den |-> den]
    ELSE LET k == PyInt(Head(parts))
         IN  IF ~k.ok THEN [raised |-> "ValueError", num |-> 0, den |-> 1]
             ELSE IF k.v = 0
                  THEN [raised |-> "ZeroDivisionError", num |-> 0, den |-> 1]
             ELSE ReduceTruediv(Tail(parts), num, den * k.v)

\* lines 113-121: the value stored under 'framerate'
Framerate(d) ==
    LET parts == Split(Get(d, k_avg_frame_rate, StrVal(<<>>)).s, "/")
        first == PyInt(Head(parts))
        q == ReduceTruediv(Tail(parts), first.v, 1)
    IN  IF ~first.ok THEN NoneVal
        ELSE IF q.raised # "" THEN NoneVal
        ELSE IntVal(Round(q.num, q.den))

\* line 111: key, value, *_ of line.strip().split('=')
Field(line) ==
    LET parts == Split(Strip(line), "=")
    IN  IF Len(parts) < 2
        THEN [raised |-> "ValueError", key |-> <<>>, value |-> <<>>]
        ELSE [raised |-> "", key |-> parts[1], value |-> parts[2]]

RECURSIVE FFStreamFrom(_, _)
FFStreamFrom(d, lines) ==
    IF lines = <<>> THEN [raised |-> "", d |-> d]
    ELSE LET f == Field(Head(lines))
             d1 == DictSet(d, f.key, StrVal(f.value))
         IN  IF f.raised # "" THEN [raised |-> f.raised, d |-> d]
             ELSE FFStreamFrom(DictSet(d1, k_framerate, Framerate(d1)),
                               Tail(lines))

FFStream(lines) == FFStreamFrom(EmptyDict, lines)

(***************************************************************************)
(* FFProbe.__init__: the tool check, the two probes, the block parser      *)
(***************************************************************************)
OPEN == <<"[","S","T","R","E","A","M","]">>
CLOSE == <<"[","/","S","T","R","E","A","M","]">>

IsOpen(line) == Contains(OPEN, line)
IsClose(line) == Contains(CLOSE, line)

Init ==
    /\ pc = "start"
    /\ err = ""
    /\ stdout = <<>>
    /\ stderr = <<>>
    /\ mkverr = <<>>
    /\ stream = FALSE
    /\ data_lines = <<>>
    /\ blocks = <<>>
    /\ streams = <<>>
    /\ video = <<>>
    /\ audio = <<>>
    /\ subtitle = <<>>
    /\ attachment = <<>>
    /\ container = <<>>
    /\ ret = [call |-> "", self |-> 0, raised |-> "", value |-> NoneVal]

Raise(e) == pc' = "error" /\ err' = e

\* lines 27-31: ffprobe -h runs, or IOError('ffprobe not found.')
CheckTool ==
    /\ pc = "start"
    /\ \/ pc' = "probe1" /\ err' = err
       \/ Raise("IOError: ffprobe not found.")
    /\ UNCHANGED <<stdout, stderr, mkverr, stream, data_lines, blocks,
                   streams, video, audio, subtitle, attachment, container, ret>>

\* lines 33, 84-101: the stream dump is captured, or the path is no file
Probe1 ==
    /\ pc = "probe1"
    /\ \/ pc' = "stdout" /\ err' = err
       \/ Raise("IOError: No such media file")
    /\ UNCHANGED <<stdout, stderr, mkverr, stream, data_lines, blocks,
                   streams, video, audio, subtitle, attachment, container, ret>>

\* ParseLine with the buffer kept when a block is opened inside a block
ParseLine_KeepBuffer(line) ==
    IF IsOpen(line)
    THEN /\ stream' = TRUE
         /\ data_lines' = IF stream THEN data_lines ELSE <<>>
         /\ UNCHANGED <<pc, err, blocks, streams>>
    ELSE IF IsClose(line) /\ stream
    THEN /\ stream' = FALSE
         /\ blocks' = Append(blocks, data_lines)
         /\ LET s == FFStream(data_lines)
            IN  IF s.raised # ""
                THEN Raise(s.raised) /\ streams' = streams
                ELSE streams' = Append(streams, s.d) /\ UNCHANGED <<pc, err>>
         /\ UNCHANGED data_lines
    ELSE IF stream
    THEN /\ data_lines' = Append(data_lines, line)
         /\ UNCHANGED <<pc, err, stream, blocks, streams>>
    ELSE UNCHANGED <<pc, err, stream, data_lines, blocks, streams>>

\* lines 43-51 (and 54-61): one iteration of the loop on `line`
ParseLine(line) ==
    IF IsOpen(line)
    THEN /\ stream' = TRUE
         /\ data_lines' = <<>>
         /\ UNCHANGED <<pc, err, blocks, streams>>
    ELSE IF IsClose(line) /\ stream
    THEN /\ stream' = FALSE
         /\ blocks' = Append(blocks, data_lines)
         /\ LET s == FFStream(data_lines)
            IN  IF s.raised # ""
                THEN Raise(s.raised) /\ streams' = streams
                ELSE streams' = Append(streams, s.d) /\ UNCHANGED <<pc, err>>
         /\ UNCHANGED data_lines
    ELSE IF stream
    THEN /\ data_lines' = Append(data_lines, line)
         /\ UNCHANGED <<pc, err, stream, blocks, streams>>
    ELSE UNCHANGED <<pc, err, stream, data_lines, blocks, streams>>

StdoutLine(line) ==
    /\ pc = "stdout"
    /\ stdout' = Append(stdout, line)
    /\ ParseLine(line)
    /\ UNCHANGED <<stderr, mkverr, video, audio, subtitle, attachment,
                   container, ret>>

EndStdout ==
    /\ pc = "stdout"
    /\ pc' = "stderr"
    /\ UNCHANGED <<err, stdout, stderr, mkverr, stream, data_lines, blocks,
                   streams, video, audio, subtitle, attachment, container, ret>>

StderrLine(line) ==
    /\ pc = "stderr"
    /\ stderr' = Append(stderr, line)
    /\ ParseLine(line)
    /\ UNCHANGED <<stdout, mkverr, video, audio, subtitle, attachment,
                   container, ret>>

EndStderr ==
    /\ pc = "stderr"
    /\ pc' = "classify"
    /\ UNCHANGED <<err, stdout, stderr, mkverr, stream, data_lines, blocks,
                   streams, video, audio, subtitle, attachment, container, ret>>

(***************************************************************************)
(* FFStream: the predicates and frames().  A method is looked up on the    *)
(* object first: an entry of __dict__ named like the method is found       *)
(* instead of it, and calling that str raises TypeError.                   *)
(***************************************************************************)
is_audio(d) == Get(d, k_codec_type, NoneVal) = StrVal(<<"a","u","d","i","o">>)
is_video(d) == Get(d, k_codec_type, NoneVal) = StrVal(<<"v","i","d","e","o">>)
\* is_subtitle comparing with a misspelt literal
is_subtitle_Typo(d) == Get(d, k_codec_type, NoneVal) = StrVal(<<"s","u","b","t","i","t","l","e","s">>)
is_subtitle(d) == Get(d, k_codec_type, NoneVal) = StrVal(<<"s","u","b","t","i","t","l","e">>)
is_attachment(d) == Get(d, k_codec_type, NoneVal) = StrVal(<<"a","t","t","a","c","h","m","e","n","t">>)

\* lines 194-202, called as stream.frames()
frames(d) ==
    LET n == PyInt(Get(d, k_nb_frames, StrVal(<<>>)).s)
        count == IF n.ok THEN [raised |-> "", value |-> IntVal(n.v)]
                 ELSE [raised |-> "FFProbeError", value |-> NoneVal]
        typeError == [raised |-> "TypeError", value |-> NoneVal]
    IN  IF k_frames \in DOMAIN d THEN typeError
        ELSE IF k_is_video \in DOMAIN d THEN typeError
        ELSE IF is_video(d) THEN count
        ELSE IF k_is_audio \in DOMAIN d THEN typeError
        ELSE IF is_audio(d) THEN count
        ELSE [raised |-> "", value |-> IntVal(0)]

\* lines 64-71: the list one stream is appended to
Kind(d) ==
    IF k_is_audio \in DOMAIN d THEN "TypeError"
    ELSE IF is_audio(d) THEN "audio"
    ELSE IF k_is_video \in DOMAIN d THEN "TypeError"
    ELSE IF is_video(d) THEN "video"
    ELSE IF k_is_subtitle \in DOMAIN d THEN "TypeError"
    ELSE IF is_subtitle(d) THEN "subtitle"
    ELSE IF k_is_attachment \in DOMAIN d THEN "TypeError"
    ELSE IF is_attachment(d) THEN "attachment"
    ELSE "none"

\* lines 63-71: the loop over self.streams from the i-th on
RECURSIVE ClassifyFrom(_, _, _)
ClassifyFrom(ss, i, acc) ==
    IF i > Len(ss) THEN acc
    ELSE LET k == Kind(ss[i])
         IN  IF k = "TypeError" THEN [acc EXCEPT !.raised = k]
             ELSE IF k = "none" THEN ClassifyFrom(ss, i + 1, acc)
             ELSE ClassifyFrom(ss, i + 1, [acc EXCEPT ![k] = Append(@, i)])

Classify ==
    /\ pc = "classify"
    /\ LET r == ClassifyFrom(streams, 1,
                    [raised |-> "", video |-> video, audio |-> audio,
                     subtitle |-> subtitle, attachment |-> attachment])
       IN  /\ video' = r.video
           /\ audio' = r.audio
           /\ subtitle' = r.subtitle
           /\ attachment' = r.attachment
           /\ IF r.raised # "" THEN Raise(r.raised)
              ELSE pc' = "probe2" /\ err' = err
    /\ UNCHANGED <<stdout, stderr, mkverr, stream, data_lines, blocks,
                   streams, container, ret>>

(***************************************************************************)
(* The container bit rate: lines 23-24 and 73-79, FFContainer              *)
(***************************************************************************)
\* line 74, 84-101: the second invocation, or the path is no file any more
Probe2 ==
    /\ pc = "probe2"
    /\ \/ pc' = "mkverr" /\ err' = err
       \/ Raise("IOError: No such media file")
    /\ UNCHANGED <<stdout, stderr, mkverr, stream, data_lines, blocks,
                   streams, video, audio, subtitle, attachment, container, ret>>

DurationWord == <<"D","u","r","a","t","i","o","n",":"," ">>

\* stream_re.search(line), stream_re = r'Duration: [0=9]+:'
stream_re(line) ==
    \E i \in 1..Len(line) :
        /\ i + Len(DurationWord) - 1 <= Len(line)
        /\ SubSeq(line, i, i + Len(DurationWord) - 1) = DurationWord
        /\ \E n \in 1..Len(line) :
              /\ i + Len(DurationWord) + n <= Len(line)
              /\ \A j \in (i + Len(DurationWord))..(i + Len(DurationWord) + n - 1) :
                    line[j] \in {"0", "=", "9"}
              /\ line[i + Len(DurationWord) + n] = ":"

MaxBitDigits == 8

\* bit_re = r'\ \d{1,8}\ [a-z]b' matches at i with n digits
BitReAt(line, i, n) ==
    /\ i + n + 3 <= Len(line)
    /\ line[i] = " "
    /\ \A j \in (i + 1)..(i + n) : line[j] \in Digits
    /\ line[i + n + 1] = " "
    /\ line[i + n + 2] \in Lower
    /\ line[i + n + 3] = "b"

\* bit_re.search(line): the leftmost match, or None
bit_re(line) ==
    LET at == {i \in 1..Len(line) : \E n \in 1..MaxBitDigits : BitReAt(line, i, n)}
    IN  IF at = {} THEN [found |-> FALSE, group |-> <<>>]
        ELSE LET i == CHOOSE x \in at : \A y \in at : x <= y
                 n == CHOOSE m \in 1..MaxBitDigits : BitReAt(line, i, m)
             IN  [found |-> TRUE, group |-> SubSeq(line, i, i + n + 3)]

\* re.sub("[^0-9]", "", s)
KeepDigits(s) == SelectSeq(s, LAMBDA c : c \in Digits)

\* FFContainer.__init__: key, value of line.strip().split('=')
RECURSIVE FFContainerFrom(_, _)
FFContainerFrom(d, lines) ==
    IF lines = <<>> THEN [raised |-> "", d |-> d]
    ELSE LET parts == Split(Strip(Head(lines)), "=")
         IN  IF Len(parts) # 2 THEN [raised |-> "ValueError", d |-> d]
             ELSE FFContainerFrom(DictSet(d, parts[1], StrVal(parts[2])),
                                  Tail(lines))

FFContainer(lines) == FFContainerFrom(EmptyDict, lines)

\* lines 76-79: one iteration of the loop on mkverr
MkverrLine(line) ==
    /\ pc = "mkverr"
    /\ mkverr' = Append(mkverr, line)
    /\ IF stream_re(line)
       THEN LET m == bit_re(line)
                c == FFContainer(<<<<"c","o","n","t","a","i","n","e","r","_","b","i","t","r","a","t","e","=">> \o KeepDigits(m.group)>>)
            IN  IF ~m.found
                THEN Raise("AttributeError") /\ container' = container
                ELSE IF c.raised # ""
                THEN Raise(c.raised) /\ container' = container
                ELSE container' = Append(container, c.d) /\ UNCHANGED <<pc, err>>
       ELSE UNCHANGED <<pc, err, container>>
    /\ UNCHANGED <<stdout, stderr, stream, data_lines, blocks, streams,
                   video, audio, subtitle, attachment, ret>>

EndMkverr ==
    /\ pc = "mkverr"
    /\ pc' = "done"
    /\ UNCHANGED <<err, stdout, stderr, mkverr, stream, data_lines, blocks,
                   streams, video, audio, subtitle, attachment, container, ret>>

\* lines 260-267, called as container.container_bitrate(): __dict__ holds an
\* entry of that name (line 258), which is found instead of the method
container_bitrate(d) ==
    LET n == PyInt(Get(d, k_container_bitrate, StrVal(<<>>)).s)
    IN  IF k_container_bitrate \in DOMAIN d
        THEN [raised |-> "TypeError", value |-> NoneVal]
        ELSE IF n.ok THEN [raised |-> "", value |-> IntVal(n.v)]
        ELSE [raised |-> "FFProbeError", value |-> NoneVal]

(***************************************************************************)
(* The caller's use of the result                                          *)
(***************************************************************************)
CallFrames(i) ==
    /\ pc = "done"
    /\ i \in 1..Len(streams)
    /\ LET r == frames(streams[i])
       IN  ret' = [call |-> "frames", self |-> i, raised |-> r.raised,
                   value |-> r.value]
    /\ UNCHANGED <<pc, err, stdout, stderr, mkverr, stream, data_lines, blocks,
                   streams, video, audio, subtitle, attachment, container>>

CallContainerBitrate(i) ==
    /\ pc = "done"
    /\ i \in 1..Len(container)
    /\ LET r == container_bitrate(container[i])
       IN  ret' = [call |-> "container_bitrate", self |-> i,
                   raised |-> r.raised, value |-> r.value]
    /\ UNCHANGED <<pc, err, stdout, stderr, mkverr, stream, data_lines, blocks,
                   streams, video, audio, subtitle, attachment, container>>

(***************************************************************************)
(* The block parser on arbitrary lines (markers, a field, a line with no   *)
(* '='), on both channels.                                                 *)
(***************************************************************************)
ParserLines == {OPEN, CLOSE, <<"i","n","d","e","x","=","0">>, <<"I","n","p","u","t"," ","#","0">>}

NextParser ==
    \/ CheckTool
    \/ Probe1
    \/ Len(stdout) < MaxStdout /\ \E line \in ParserLines : StdoutLine(line)
    \/ EndStdout
    \/ Len(stderr) < MaxStderr /\ \E line \in ParserLines : StderrLine(line)
    \/ EndStderr
    \/ Classify
    \/ Probe2
    \/ EndMkverr

SpecParser == Init /\ [][NextParser]_vars

(***************************************************************************)
(* Properties of the block parser                                          *)
(***************************************************************************)
\* the lines the block parser has read, in the order it read them
Lines == stdout \o stderr
OpenLine(l) == IsOpen(l)
CloseLine(l) == IsClose(l) /\ ~IsOpen(l)
\* the closing markers that follow an opening marker with no closing marker
\* in between
Emitting(in) ==
    {j \in 1..Len(in) :
        /\ CloseLine(in[j])
        /\ \E i \in 1..(j - 1) :
              OpenLine(in[i]) /\ \A m \in (i + 1)..(j - 1) : ~CloseLine(in[m])}
LastOpen(in, j) ==
    CHOOSE i \in 1..(j - 1) :
        OpenLine(in[i]) /\ \A m \in (i + 1)..(j - 1) : ~OpenLine(in[m])
\* the k-th smallest element of a set of numbers
Nth(S, k) == CHOOSE j \in S : Cardinality({x \in S : x < j}) = k - 1

\* C10: a closing marker seen OUTSIDE emits nothing and an opening marker
\* seen INSIDE_BLOCK discards the buffer: the blocks handed to FFStream are,
\* one for one and in order, the closing markers that follow an opening
\* marker; each block is exactly the lines strictly between the last opening
\* marker and that closing marker, none of them a marker line, and every
\* record of streams is the FFStream of its block.
C10_BlocksBetweenMarkers ==
    /\ Len(blocks) = Cardinality(Emitting(Lines))
    /\ \A k \in 1..Len(blocks) :
          LET j == Nth(Emitting(Lines), k)
          IN  /\ blocks[k] = SubSeq(Lines, LastOpen(Lines, j) + 1, j - 1)
              /\ \A m \in 1..Len(blocks[k]) :
                    ~OpenLine(blocks[k][m]) /\ ~CloseLine(blocks[k][m])
    /\ Len(streams) <= Len(blocks)
    /\ \A k \in 1..Len(streams) :
          FFStream(blocks[k]).raised = "" /\ streams[k] = FFStream(blocks[k]).d

\* a record was emitted, a closing marker was seen OUTSIDE, and an opening
\* marker was seen INSIDE_BLOCK after a line had been buffered
C10_Witness ==
    /\ pc = "done"
    /\ Len(streams) >= 1
    /\ \E j \in 1..Len(Lines) : CloseLine(Lines[j]) /\ j \notin Emitting(Lines)
    /\ \E i, m, n \in 1..Len(Lines) :
          /\ i < m /\ m < n
          /\ OpenLine(Lines[i]) /\ OpenLine(Lines[n])
          /\ \A x \in (i + 1)..(n - 1) : ~OpenLine(Lines[x]) /\ ~CloseLine(Lines[x])

\* C2: the parser starts each channel OUTSIDE: a record emitted while the
\* stderr lines are read comes from a block opened on stderr and is made of
\* stderr lines only, so a block left open at the end of stdout yields no
\* record whatever stderr holds.
C2_PerChannel ==
    [][(pc = "stderr" /\ Len(blocks') > Len(blocks)) =>
          \E i \in 1..Len(stderr) :
              /\ IsOpen(stderr[i])
              /\ blocks'[Len(blocks')] = SubSeq(stderr, i + 1, Len(stderr))]_vars

HasNoEq(b) == \E m \in 1..Len(b) : \A c \in 1..Len(b[m]) : b[m][c] # "="

\* C3: once a block with a body line that has no '=' is complete, the
\* analysis is not aborted and every other block has its record.
C3_BlockScoped ==
    (\E k \in 1..Len(blocks) : HasNoEq(blocks[k])) =>
        /\ pc # "error"
        /\ Len(streams) = Cardinality({k \in 1..Len(blocks) : ~HasNoEq(blocks[k])})

(***************************************************************************)
(* Well-formed stream dumps: blocks of at most MaxFields codec_type (or    *)
(* is_video) lines, possibly nested, on both channels.                     *)
(***************************************************************************)
CodecLines == {<<"c","o","d","e","c","_","t","y","p","e","=","v","i","d","e","o">>, <<"c","o","d","e","c","_","t","y","p","e","=","a","u","d","i","o">>,
               <<"c","o","d","e","c","_","t","y","p","e","=","s","u","b","t","i","t","l","e">>, <<"c","o","d","e","c","_","t","y","p","e","=","a","t","t","a","c","h","m","e","n","t">>,
               <<"c","o","d","e","c","_","t","y","p","e","=","d","a","t","a">>, <<"i","s","_","v","i","d","e","o","=","1">>}

NextClassify ==
    \/ CheckTool
    \/ Probe1
    \/ Len(stdout) < MaxDump /\ ~stream /\ StdoutLine(OPEN)
    \/ /\ Len(stdout) < MaxDump /\ stream /\ Len(data_lines) < MaxFields
       /\ \E line \in CodecLines : StdoutLine(line)
    \/ Len(stdout) < MaxDump /\ stream /\ StdoutLine(CLOSE)
    \/ EndStdout
    \/ Len(stderr) < MaxDumpErr /\ ~stream /\ StderrLine(OPEN)
    \/ /\ Len(stderr) < MaxDumpErr /\ stream /\ Len(data_lines) < MaxFields
       /\ \E line \in CodecLines : StderrLine(line)
    \/ Len(stderr) < MaxDumpErr /\ stream /\ StderrLine(CLOSE)
    \/ EndStderr
    \/ Classify
    \/ Probe2
    \/ EndMkverr

SpecClassify == Init /\ [][NextClassify]_vars

\* the number of places of list l that hold the reference i
Occurrences(l, i) == Cardinality({p \in 1..Len(l) : l[p] = i})
Recognized == {StrVal(<<"v","i","d","e","o">>), StrVal(<<"a","u","d","i","o">>), StrVal(<<"s","u","b","t","i","t","l","e">>),
               StrVal(<<"a","t","t","a","c","h","m","e","n","t">>)}
Classified == pc \in {"probe2", "mkverr", "done"}

\* C1: once the records are classified, every record built from a block is
\* in streams, the four lists hold references to records of streams only,
\* and a record is in the four lists exactly once in all if its codec_type
\* is video, audio, subtitle or attachment, and in none of them otherwise
\* (another codec_type, or none).
C1_Partition ==
    Classified =>
        /\ Len(streams) = Len(blocks)
        /\ \A k \in 1..Len(blocks) : streams[k] = FFStream(blocks[k]).d
        /\ \A l \in {video, audio, subtitle, attachment} :
              \A p \in 1..Len(l) : l[p] \in 1..Len(streams)
        /\ \A i \in 1..Len(streams) :
              Occurrences(video, i) + Occurrences(audio, i)
                + Occurrences(subtitle, i) + Occurrences(attachment, i)
              = IF Get(streams[i], k_codec_type, NoneVal) \in Recognized
                THEN 1 ELSE 0

\* classified records in two different lists, and a record with another
\* codec_type in none of them
C1_Witness ==
    /\ Classified
    /\ Cardinality({l \in {video, audio, subtitle, attachment} : l # <<>>}) >= 2
    /\ \E i \in 1..Len(streams) :
          /\ Get(streams[i], k_codec_type, NoneVal) = StrVal(<<"d","a","t","a">>)
          /\ \A l \in {video, audio, subtitle, attachment} :
                Occurrences(l, i) = 0

(***************************************************************************)
(* One block of at most MaxBody field lines on stdout, and frames() on the *)
(* record built from it.                                                   *)
(***************************************************************************)
FieldLines == {<<"c","o","d","e","c","_","t","y","p","e","=","v","i","d","e","o">>, <<"c","o","d","e","c","_","t","y","p","e","=","s","u","b","t","i","t","l","e">>,
               <<"n","b","_","f","r","a","m","e","s","=","1","2">>, <<"n","b","_","f","r","a","m","e","s","=","N","/","A">>, <<"T","A","G",":","t","i","t","l","e","=","a","=","b">>,
               <<"a","v","g","_","f","r","a","m","e","_","r","a","t","e","=","2","4","0","0","0","/","1","0","0","1">>, <<"a","v","g","_","f","r","a","m","e","_","r","a","t","e","=","3","0","/","0">>,
               <<"a","v","g","_","f","r","a","m","e","_","r","a","t","e","=">>, <<"a","v","g","_","f","r","a","m","e","_","r","a","t","e","=","2","5">>,
               <<"a","v","g","_","f","r","a","m","e","_","r","a","t","e","=","5","/","2">>, <<"a","v","g","_","f","r","a","m","e","_","r","a","t","e","=","N","/","A">>}

NextStream ==
    \/ CheckTool
    \/ Probe1
    \/ stdout = <<>> /\ StdoutLine(OPEN)
    \/ /\ stream /\ Len(data_lines) < MaxBody
       /\ \E line \in FieldLines : StdoutLine(line)
    \/ stream /\ StdoutLine(CLOSE)
    \/ EndStdout
    \/ EndStderr
    \/ Classify
    \/ Probe2
    \/ EndMkverr
    \/ \E i \in 1..Len(streams) : CallFrames(i)

SpecStream == Init /\ [][NextStream]_vars

\* the place of the first c in s (0: none)
FirstAt(s, c) ==
    IF \E i \in 1..Len(s) : s[i] = c
    THEN CHOOSE i \in 1..Len(s) : s[i] = c /\ \A j \in 1..(i - 1) : s[j] # c
    ELSE 0
NameOf(line) == SubSeq(line, 1, FirstAt(line, "=") - 1)
ValueOf(line) == SubSeq(line, FirstAt(line, "=") + 1, Len(line))

\* C4: in every record, the last body line of its block that has a given
\* name before its first '=' is stored under that name with the whole text
\* after its first '='.
C4_WholeValue ==
    \A k \in 1..Len(streams) :
        \A m \in 1..Len(blocks[k]) :
            LET line == blocks[k][m]
            IN  (/\ FirstAt(line, "=") > 0
                 /\ \A n \in (m + 1)..Len(blocks[k]) :
                       NameOf(blocks[k][n]) # NameOf(line))
                => /\ NameOf(line) \in DOMAIN streams[k]
                   /\ streams[k][NameOf(line)] = StrVal(ValueOf(line))

IsIntegerText(s) == s # <<>> /\ \A i \in 1..Len(s) : s[i] \in Digits

\* C5: in every record, framerate is n/d rounded to the nearest integer when
\* the final avg_frame_rate is n/d, both integer text, d not zero, and is
\* the absent value in every other case.
C5_Framerate ==
    \A k \in 1..Len(streams) :
        LET d == streams[k]
            parts == Split(Get(d, k_avg_frame_rate, StrVal(<<>>)).s, "/")
            fr == Get(d, k_framerate, NoneVal)
        IN  IF /\ Len(parts) = 2
               /\ IsIntegerText(parts[1]) /\ IsIntegerText(parts[2])
               /\ DigitsVal(parts[2], 0) # 0
            THEN LET n == DigitsVal(parts[1], 0)
                     den == DigitsVal(parts[2], 0)
                 IN  /\ fr.t = "int"
                     /\ 2 * (fr.i * den - n) <= den
                     /\ 2 * (n - fr.i * den) <= den
            ELSE fr = NoneVal

\* C6: frames() raises FFProbeError only for a video or audio record whose
\* nb_frames is present and no integer text; it returns 0 for a video or
\* audio record with no nb_frames, and 0 for every other record.
C6_Frames ==
    ret.call = "frames" =>
        LET d == streams[ret.self]
            av == Get(d, k_codec_type, NoneVal)
                      \in {StrVal(<<"v","i","d","e","o">>), StrVal(<<"a","u","d","i","o">>)}
        IN  /\ ret.raised = "FFProbeError" =>
                  /\ av
                  /\ k_nb_frames \in DOMAIN d
                  /\ ~IsIntegerText(d[k_nb_frames].s)
            /\ (av /\ k_nb_frames \notin DOMAIN d) =>
                  ret.raised = "" /\ ret.value = IntVal(0)
            /\ ~av => ret.raised = "" /\ ret.value = IntVal(0)

(***************************************************************************)
(* The diagnostic channel of the second invocation, after an empty stream  *)
(* dump, and container_bitrate() on the records built from it.             *)
(***************************************************************************)
MkvLines == {<<" "," ","D","u","r","a","t","i","o","n",":"," ","0","0",":","0","1",":","0","2",".","3","4",","," ","s","t","a","r","t",":"," ","0",".","0","0","0","0","0","0",","," ","b","i","t","r","a","t","e",":"," ","1","2","8"," ","k","b","/","s">>,
             <<" "," ","D","u","r","a","t","i","o","n",":"," ","0","1",":","0","2",":","0","3",".","4","5",","," ","s","t","a","r","t",":"," ","0",".","0","0","0","0","0","0",","," ","b","i","t","r","a","t","e",":"," ","2","5","6"," ","k","b","/","s">>,
             <<" "," ","D","u","r","a","t","i","o","n",":"," ","0","9",":","0","0",":","0","0",".","0","0",","," ","s","t","a","r","t",":"," ","0",".","0","0","0","0","0","0",","," ","b","i","t","r","a","t","e",":"," ","1","2","3","4","5","6","7","8"," ","k","b","/","s">>,
             <<" "," ","D","u","r","a","t","i","o","n",":"," ","0","0",":","0","0",":","0","5",".","0","0",","," ","s","t","a","r","t",":"," ","0",".","0","0","0","0","0","0",","," ","b","i","t","r","a","t","e",":"," ","N","/","A">>,
             <<"I","n","p","u","t"," ","#","0",","," ","m","a","t","r","o","s","k","a",",","w","e","b","m",","," ","f","r","o","m"," ","'","a",".","m","k","v","'",":">>}

NextContainer ==
    \/ CheckTool
    \/ Probe1
    \/ EndStdout
    \/ EndStderr
    \/ Classify
    \/ Probe2
    \/ Len(mkverr) < MaxMkverr /\ \E line \in MkvLines : MkverrLine(line)
    \/ EndMkverr
    \/ \E i \in 1..Len(container) : CallContainerBitrate(i)

SpecContainer == Init /\ [][NextContainer]_vars

BitrateWord == <<"b","i","t","r","a","t","e",":"," ">>
KbPerS == <<" ","k","b","/","s">>
At(line, i, w) ==
    i + Len(w) - 1 <= Len(line) /\ SubSeq(line, i, i + Len(w) - 1) = w
\* `Duration: DD:DD:DD.DD,` somewhere in the line
HasDuration(line) ==
    \E i \in 1..Len(line) :
        /\ At(line, i, DurationWord)
        /\ i + Len(DurationWord) + 11 <= Len(line)
        /\ LET t == SubSeq(line, i + Len(DurationWord), i + Len(DurationWord) + 11)
           IN  /\ \A j \in {1, 2, 4, 5, 7, 8, 10, 11} : t[j] \in Digits
               /\ t[3] = ":" /\ t[6] = ":" /\ t[9] = "." /\ t[12] = ","
\* `bitrate: N kb/s` at place i, N of n digits
BitrateAt(line, i, n) ==
    /\ At(line, i, BitrateWord)
    /\ i + Len(BitrateWord) + n - 1 <= Len(line)
    /\ \A j \in (i + Len(BitrateWord))..(i + Len(BitrateWord) + n - 1) :
          line[j] \in Digits
    /\ At(line, i + Len(BitrateWord) + n, KbPerS)
IsAnnouncement(line) ==
    /\ HasDuration(line)
    /\ \E i \in 1..Len(line), n \in 1..MaxBitDigits : BitrateAt(line, i, n)
AnnouncedBitrate(line) ==
    LET p == CHOOSE p \in (1..Len(line)) \X (1..MaxBitDigits) :
                 BitrateAt(line, p[1], p[2])
    IN  DigitsVal(SubSeq(line, p[1] + Len(BitrateWord),
                         p[1] + Len(BitrateWord) + p[2] - 1), 0)

\* C7: at most one ContainerRecord is produced, and it holds the digits of
\* the first line that matches the duration pattern.
C7_AtMostOne ==
    /\ Len(container) <= 1
    /\ \A c \in 1..Len(container) :
          \E i \in 1..Len(mkverr) :
              /\ stream_re(mkverr[i])
              /\ \A j \in 1..(i - 1) : ~stream_re(mkverr[j])
              /\ container[c][k_container_bitrate]
                     = StrVal(KeepDigits(bit_re(mkverr[i]).group))

\* C8: when the analysis is done, every line read of the announcement form
\* has a ContainerRecord whose container_bitrate() returns its N.
C8_Recovered ==
    pc = "done" =>
        \A i \in 1..Len(mkverr) :
            IsAnnouncement(mkverr[i]) =>
                \E c \in 1..Len(container) :
                    container_bitrate(container[c])
                        = [raised |-> "",
                           value |-> IntVal(AnnouncedBitrate(mkverr[i]))]

\* C9: the analysis aborts only when the media path is no file or the tool
\* is not found.
C9_NoAbort ==
    pc = "error" =>
        err \in {"IOError: ffprobe not found.", "IOError: No such media file"}

====
